---- MODULE Spec2Model ----
(***************************************************************************)
(* Ecodrive API (src/main.py): the emission estimator, the threshold       *)
(* evaluator, the /api/estimate handler with its best-effort insert, and   *)
(* the /api/weekly-analysis aggregation over the "emissionreading"         *)
(* collection.                                                             *)
(*                                                                         *)
(* Numbers are fixed-point integers, computed exactly:                     *)
(*   request fields distance_km, fuel_used_l, efficiency_km_per_l,         *)
(*   avg_speed_kmh           tenths of the unit (100 is 10.0)              *)
(*   co_g                    hundredths of a gram   (round(.., 2))         *)
(*   co2_kg                  thousandths of a kg    (round(.., 3))         *)
(*   co2_g_per_km            tenths of a g/km       (round(.., 1))         *)
(* Python's round() is round-half-to-even; binary representation error of  *)
(* the floats is not modelled.                                             *)
(* Time is counted in ticks, DayLen ticks to a UTC calendar day.           *)
(* An Optional value is None or Some(v).                                   *)
(***************************************************************************)
EXTENDS Integers, Sequences, FiniteSets, TLC

VARIABLES store, now, op, req, resp, dbCall

vars == <<store, now, op, req, resp, dbCall>>

\* Ticks per UTC calendar day.
DayLen == 2

\* Most readings the collection holds.
MaxStore == 2

\* timedelta(days=7) and range(7)
WindowDays == 7

\* The calendar days on which the clock is read: a first day and the day a week
\* later, so that a reading of the first day is older than, exactly at, or inside
\* the window of a report made on the later day.
ClockDays == {0, WindowDays}

\* Every tick of those days.
Times == {d * DayLen + k : d \in ClockDays, k \in 0..(DayLen - 1)}

None == <<>>

Some(v) == <<v>>

Val(o) == o[1]

\* Python truthiness of an Optional[float]: None and 0 are falsy.
Truthy(o) == o # None /\ Val(o) # 0

\* Python truthiness of an Optional[str]: None and "" are falsy.
TruthyStr(o) == o # None /\ Val(o) # ""

Abs(x) == IF x < 0 THEN -x ELSE x

Max(a, b) == IF a >= b THEN a ELSE b

\* round(n / d) to an integer, ties to even (d > 0).
RoundDiv(n, d) ==
    LET q == n \div d
        r == n % d
    IN  IF 2 * r < d THEN q
        ELSE IF 2 * r > d THEN q + 1
        ELSE IF q % 2 = 0 THEN q ELSE q + 1

\* str.lower() on the fuel types the requests carry.
Lower(s) ==
    CASE s = "PETROL" -> "petrol"
      [] s = "Diesel" -> "diesel"
      [] OTHER -> s

Raise(code, text) == [status |-> code, detail |-> text, body |-> None]

Ok(b) == [status |-> 200, detail |-> "", body |-> Some(b)]

----------------------------------------------------------------------------
(* Utility functions *)

\* emission_factors: co2 in g per litre, co base in thousandths of g per km.
emission_factors(fuel_type) ==
    LET ft == Lower(fuel_type)
    IN  IF ft \notin {"petrol", "diesel"}
        THEN Raise(400, "fuel_type must be 'petrol' or 'diesel'")
        ELSE IF ft = "petrol"
        THEN Ok([co2_kg_per_l |-> 2310, co_base_g_per_km |-> 1200])
        ELSE Ok([co2_kg_per_l |-> 2680, co_base_g_per_km |-> 800])

\* speed = avg_speed_kmh or 40.0   (tenths of km/h)
SpeedUsed(avg_speed_kmh) ==
    IF Truthy(avg_speed_kmh) THEN Val(avg_speed_kmh) ELSE 400

\* co_g (hundredths of a gram) for a base factor, a speed and a distance.
CoGTotal(base, speed, distance_km) ==
    LET speed_factor == 2 * Abs(speed - 500)
        co_g_per_km  == Max(200, base + speed_factor)
    IN  RoundDiv(co_g_per_km * distance_km, 100)

estimate_emissions(distance_km, fuel_type, fuel_used_l, efficiency_km_per_l, avg_speed_kmh) ==
    IF distance_km < 0 THEN Raise(400, "distance_km must be >= 0")
    ELSE LET factors == emission_factors(fuel_type)
    IN  IF factors.status # 200 THEN factors
    ELSE IF fuel_used_l = None
            /\ ~(Truthy(efficiency_km_per_l) /\ Val(efficiency_km_per_l) > 0)
    THEN Raise(400, "Provide fuel_used_l or efficiency_km_per_l > 0")
    ELSE LET f == Val(factors.body)
             \* fuel_used_l as a fraction num / den of a litre
             num == IF fuel_used_l = None THEN distance_km ELSE Val(fuel_used_l)
             den == IF fuel_used_l = None THEN Val(efficiency_km_per_l) ELSE 10
             co2_kg == RoundDiv(num * f.co2_kg_per_l, den)
             co2_g_per_km == IF distance_km > 0
                             THEN RoundDiv(num * f.co2_kg_per_l * 100, den * distance_km)
                             ELSE 0
             speed == SpeedUsed(avg_speed_kmh)
         IN  Ok([co_g |-> CoGTotal(f.co_base_g_per_km, speed, distance_km),
                 co2_kg |-> co2_kg,
                 co2_g_per_km |-> co2_g_per_km])

\* The reasons of check_thresholds, in check order.
Reasons(co_g, co2_g_per_km) ==
    (IF co2_g_per_km > 1800 THEN <<"High CO2 intensity">> ELSE <<>>)
    \o (IF co_g > 2000 THEN <<"High CO emission">> ELSE <<>>)

\* ", ".join(reasons)
RECURSIVE Join(_)
Join(reasons) ==
    IF Len(reasons) = 0 THEN ""
    ELSE IF Len(reasons) = 1 THEN reasons[1]
    ELSE reasons[1] \o ", " \o Join(Tail(reasons))

\* Thresholds compared with >= instead of >.
check_thresholds_ge(co_g, co2_g_per_km) ==
    LET reasons == (IF co2_g_per_km >= 1800 THEN <<"High CO2 intensity">> ELSE <<>>)
                   \o (IF co_g >= 2000 THEN <<"High CO emission">> ELSE <<>>)
    IN  [alert  |-> Len(reasons) > 0,
         reason |-> IF Len(reasons) > 0 THEN Some(Join(reasons)) ELSE None]

\* The second rule under an elif: only the first reason that fires is kept.
check_thresholds_elif(co_g, co2_g_per_km) ==
    LET reasons == IF co2_g_per_km > 1800 THEN <<"High CO2 intensity">>
                   ELSE IF co_g > 2000 THEN <<"High CO emission">> ELSE <<>>
    IN  [alert  |-> Len(reasons) > 0,
         reason |-> IF Len(reasons) > 0 THEN Some(Join(reasons)) ELSE None]

check_thresholds(co_g, co2_g_per_km) ==
    LET reasons == Reasons(co_g, co2_g_per_km)
    IN  [alert  |-> Len(reasons) > 0,
         reason |-> IF Len(reasons) > 0 THEN Some(Join(reasons)) ELSE None]

----------------------------------------------------------------------------
(* Request model and the storage collaborator *)

\* A request model without the ge=0 bound on fuel_used_l.
EstimateRequest_no_fuel_bound(data) ==
    /\ data.distance_km >= 0
    /\ data.efficiency_km_per_l # None => Val(data.efficiency_km_per_l) > 0
    /\ data.fuel_type # None => Val(data.fuel_type) \in {"petrol", "diesel"}
    /\ data.avg_speed_kmh # None => Val(data.avg_speed_kmh) >= 0

\* EstimateRequest: the pydantic field constraints; a request that breaks one
\* never reaches the handler's body.
EstimateRequest(data) ==
    /\ data.distance_km >= 0
    /\ data.fuel_used_l # None => Val(data.fuel_used_l) >= 0
    /\ data.efficiency_km_per_l # None => Val(data.efficiency_km_per_l) > 0
    /\ data.fuel_type # None => Val(data.fuel_type) \in {"petrol", "diesel"}
    /\ data.avg_speed_kmh # None => Val(data.avg_speed_kmh) >= 0

\* fuel_type: Literal["petrol", "diesel"] = "petrol"
FuelTypeOf(data) == IF data.fuel_type = None THEN "petrol" ELSE Val(data.fuel_type)

\* create_document(collection, doc): one insert, stamped with created_at.
create_document(s, doc, t) ==
    Append(s, [vehicle_id |-> doc.vehicle_id,
               co_g |-> doc.co_g,
               co2_kg |-> doc.co2_kg,
               co2_g_per_km |-> doc.co2_g_per_km,
               alert |-> doc.alert,
               reason |-> doc.reason,
               created_at |-> t])

\* A query with $gt in place of $gte.
find_gt(s, seven_days_ago, vehicle_id) ==
    LET Match(d) == /\ d.created_at > seven_days_ago
                    /\ TruthyStr(vehicle_id) => d.vehicle_id = Val(vehicle_id)
    IN  SelectSeq(s, Match)

\* db["emissionreading"].find({"created_at": {"$gte": seven_days_ago}, "vehicle_id": ...})
find(s, seven_days_ago, vehicle_id) ==
    LET Match(d) == /\ d.created_at >= seven_days_ago
                    /\ TruthyStr(vehicle_id) => d.vehicle_id = Val(vehicle_id)
    IN  SelectSeq(s, Match)

----------------------------------------------------------------------------
(* Routes *)

\* The body of a successful /api/estimate response for a valid request.
EstimateBody(data, metrics) ==
    LET th == check_thresholds(metrics.co_g, metrics.co2_g_per_km)
    IN  [co_g |-> metrics.co_g,
         co2_kg |-> metrics.co2_kg,
         co2_g_per_km |-> metrics.co2_g_per_km,
         alert |-> th.alert,
         reason |-> th.reason]

\* Validation and computation of a request: the metrics, or the rejection.
Computed(data) ==
    IF ~EstimateRequest(data)
    THEN Raise(422, "validation error")
    ELSE estimate_emissions(data.distance_km, FuelTypeOf(data), data.fuel_used_l,
                            data.efficiency_km_per_l, data.avg_speed_kmh)

EstimateDoc(data, body) == [vehicle_id |-> data.vehicle_id] @@ body

\* A handler that lets the insert's exception escape.
estimate_surfacing(data, s, t, ok) ==
    LET m == Computed(data)
    IN  IF m.status # 200
        THEN [resp |-> m, store |-> s, dbCall |-> "none"]
        ELSE LET body == EstimateBody(data, Val(m.body))
             IN  [resp   |-> IF ok THEN Ok(body) ELSE Raise(500, "storage unavailable"),
                  store  |-> IF ok THEN create_document(s, EstimateDoc(data, body), t) ELSE s,
                  dbCall |-> IF ok THEN "insert_ok" ELSE "insert_failed"]

\* A handler that replaces the vehicle's earlier readings instead of appending.
estimate_upsert(data, s, t, ok) ==
    LET m == Computed(data)
        Other(d) == d.vehicle_id # data.vehicle_id
    IN  IF m.status # 200
        THEN [resp |-> m, store |-> s, dbCall |-> "none"]
        ELSE LET body == EstimateBody(data, Val(m.body))
             IN  [resp   |-> Ok(body),
                  store  |-> IF ok
                             THEN create_document(SelectSeq(s, Other), EstimateDoc(data, body), t)
                             ELSE s,
                  dbCall |-> IF ok THEN "insert_ok" ELSE "insert_failed"]

\* POST /api/estimate on collection s at time t; ok: the insert succeeds.
estimate(data, s, t, ok) ==
    LET m == Computed(data)
    IN  IF m.status # 200
        THEN [resp |-> m, store |-> s, dbCall |-> "none"]
        ELSE LET body == EstimateBody(data, Val(m.body))
             IN  [resp   |-> Ok(body),
                  store  |-> IF ok THEN create_document(s, EstimateDoc(data, body), t) ELSE s,
                  dbCall |-> IF ok THEN "insert_ok" ELSE "insert_failed"]

RECURSIVE SumSeq(_)
SumSeq(xs) == IF Len(xs) = 0 THEN 0 ELSE Head(xs) + SumSeq(Tail(xs))

IsAlert(d) == d.alert

\* sum(1 for d in readings if d.get("alert"))
Alerts(readings) == Len(SelectSeq(readings, IsAlert))

\* The UTC calendar date of a time: strftime("%Y-%m-%d") names it.
DayKey(t) == t \div DayLen

\* The day-wise buckets: a dict keyed by the dates that have a reading.
ByDay(readings) ==
    LET keys == {DayKey(readings[i].created_at) : i \in 1..Len(readings)}
    IN  [k \in keys |->
            LET OnDay(d) == DayKey(d.created_at) = k
                ds == SelectSeq(readings, OnDay)
            IN  [trips  |-> Len(ds),
                 co_g   |-> SumSeq([i \in 1..Len(ds) |-> ds[i].co_g]),
                 co2_kg |-> SumSeq([i \in 1..Len(ds) |-> ds[i].co2_kg]),
                 alerts |-> Alerts(ds)]]

\* The seven days ending today: range(1, 8).
Days_through_today(seven_days_ago) ==
    [i \in 1..WindowDays |-> DayKey(seven_days_ago + i * DayLen)]

\* days = [seven_days_ago + timedelta(days=i) for i in range(7)]
Days(seven_days_ago) ==
    [i \in 1..WindowDays |-> DayKey(seven_days_ago + (i - 1) * DayLen)]

DaySeries(by_day, days) ==
    [i \in 1..Len(days) |->
        IF days[i] \in DOMAIN by_day
        THEN [day |-> days[i], trips |-> by_day[days[i]].trips,
              co_g |-> by_day[days[i]].co_g, co2_kg |-> by_day[days[i]].co2_kg,
              alerts |-> by_day[days[i]].alerts]
        ELSE [day |-> days[i], trips |-> 0, co_g |-> 0, co2_kg |-> 0, alerts |-> 0]]

\* The report built from the readings the query returned.
Report(readings, t) ==
    LET total_trips == Len(readings)
        sum_co_g    == SumSeq([i \in 1..Len(readings) |-> readings[i].co_g])
        sum_co2_kg  == SumSeq([i \in 1..Len(readings) |-> readings[i].co2_kg])
    IN  [summary |->
            [total_trips  |-> total_trips,
             total_co_g   |-> sum_co_g,
             total_co2_kg |-> sum_co2_kg,
             avg_co_g     |-> IF total_trips # 0 THEN RoundDiv(sum_co_g, total_trips) ELSE 0,
             avg_co2_kg   |-> IF total_trips # 0 THEN RoundDiv(sum_co2_kg, total_trips) ELSE 0,
             alerts       |-> Alerts(readings)],
         by_day |-> DaySeries(ByDay(readings), Days(t - WindowDays * DayLen))]

\* A handler without the except clause around the query.
weekly_analysis_no_except(vehicle_id, s, t, ok) ==
    [resp   |-> IF ok THEN Ok(Report(find(s, t - WindowDays * DayLen, vehicle_id), t))
                ELSE Raise(500, "storage unavailable"),
     store  |-> s,
     dbCall |-> IF ok THEN "find_ok" ELSE "find_failed"]

\* GET /api/weekly-analysis on collection s at time t; ok: the query succeeds.
weekly_analysis(vehicle_id, s, t, ok) ==
    LET seven_days_ago == t - WindowDays * DayLen
        readings == IF ok THEN find(s, seven_days_ago, vehicle_id) ELSE <<>>
    IN  [resp   |-> Ok(Report(readings, t)),
         store  |-> s,
         dbCall |-> IF ok THEN "find_ok" ELSE "find_failed"]

----------------------------------------------------------------------------
(* The service: requests arrive one at a time, the wall clock moves freely *)

Request(v, d, fu, eff, ft, sp) ==
    [vehicle_id |-> v, distance_km |-> d, fuel_used_l |-> fu,
     efficiency_km_per_l |-> eff, fuel_type |-> ft, avg_speed_kmh |-> sp]

\* The requests of the service run: two trips that alert or not, one rejected.
Requests ==
    { Request("v1", 1000, None, Some(100), Some("petrol"), Some(500)),
      Request("", 100, None, Some(200), Some("diesel"), Some(500)),
      Request("v1", 100, None, None, None, None) }

VehicleArgs == {None, Some(""), Some("v1")}

Init ==
    /\ store = <<>>
    /\ now = 0
    /\ op = "init"
    /\ req = None
    /\ resp = None
    /\ dbCall = "none"

Estimate(data, ok) ==
    LET r == estimate(data, store, now, ok)
    IN  /\ Len(r.store) <= MaxStore
        /\ store' = r.store
        /\ resp' = r.resp
        /\ dbCall' = r.dbCall
        /\ op' = "estimate"
        /\ req' = data
        /\ UNCHANGED now

WeeklyAnalysis(vehicle_id, ok) ==
    LET r == weekly_analysis(vehicle_id, store, now, ok)
    IN  /\ store' = r.store
        /\ resp' = r.resp
        /\ dbCall' = r.dbCall
        /\ op' = "weekly"
        /\ req' = vehicle_id
        /\ UNCHANGED now

\* datetime.now(timezone.utc): the wall clock, which may also be set back.
SetClock(t) ==
    /\ t # now
    /\ now' = t
    /\ op' = "clock"
    /\ req' = None
    /\ resp' = None
    /\ dbCall' = "none"
    /\ UNCHANGED store

Next ==
    \/ \E data \in Requests, ok \in BOOLEAN : Estimate(data, ok)
    \/ \E vehicle_id \in VehicleArgs, ok \in BOOLEAN : WeeklyAnalysis(vehicle_id, ok)
    \/ \E t \in Times : SetClock(t)

Spec == Init /\ [][Next]_vars

----------------------------------------------------------------------------
(* The estimate route alone: one request drawn from a grid, then handled *)

Distances == {-10, 0, 100, 250, 770, 1000}

FuelUsed == {None, Some(-10), Some(0), Some(10), Some(60)}

Efficiencies == {None, Some(-10), Some(0), Some(100), Some(130), Some(200)}

FuelTypes == {None, Some("petrol"), Some("diesel"), Some("hybrid"), Some("PETROL")}

Speeds == {None, Some(-10), Some(0), Some(400), Some(500), Some(1200)}

AllRequests ==
    { Request("v1", d, fu, eff, ft, sp) :
        d \in Distances, fu \in FuelUsed, eff \in Efficiencies,
        ft \in FuelTypes, sp \in Speeds }

InitEstimate ==
    /\ store = <<>>
    /\ now = 0
    /\ op = "pending"
    /\ req \in AllRequests
    /\ resp = None
    /\ dbCall = "none"

HandlePending(ok) == op = "pending" /\ Estimate(req, ok)

NextEstimate == \E ok \in BOOLEAN : HandlePending(ok)

SpecEstimate == InitEstimate /\ [][NextEstimate]_vars

----------------------------------------------------------------------------
(* The threshold evaluator alone: one pair drawn from a grid, then evaluated *)

CoGrams == (1995..2005) \cup {0, 800, 12000}

Co2Intensities == (1795..1805) \cup {0, 1340, 2310}

InitThresholds ==
    /\ store = <<>>
    /\ now = 0
    /\ op = "pending"
    /\ req \in [co_g : CoGrams, co2_g_per_km : Co2Intensities]
    /\ resp = None
    /\ dbCall = "none"

EvalThresholds ==
    /\ op = "pending"
    /\ resp' = check_thresholds(req.co_g, req.co2_g_per_km)
    /\ op' = "thresholds"
    /\ UNCHANGED <<store, now, req, dbCall>>

SpecThresholds == InitThresholds /\ [][EvalThresholds]_vars

----------------------------------------------------------------------------
(* Properties *)

Handled == op = "estimate"

Rejected == resp.status # 200

Given(o) == o # None

\* C1 as stated: Estimate is rejected exactly when distance_km < 0, or fuel_type
\* is not petrol or diesel, or fuel_used_l is absent and efficiency_km_per_l is
\* absent or not > 0; every other request succeeds.
C1_RejectedExactlyInTheThreeCases ==
    Handled =>
        (Rejected <=>
            \/ req.distance_km < 0
            \/ FuelTypeOf(req) \notin {"petrol", "diesel"}
            \/ /\ req.fuel_used_l = None
               /\ (req.efficiency_km_per_l = None \/ Val(req.efficiency_km_per_l) <= 0))

\* C1 amended: Estimate is rejected, with no result, exactly when distance_km < 0,
\* or fuel_type is given and is not exactly petrol or diesel, or fuel_used_l is
\* given and < 0, or efficiency_km_per_l is given and not > 0 (also when
\* fuel_used_l is given), or avg_speed_kmh is given and < 0, or both fuel_used_l
\* and efficiency_km_per_l are absent; every other request succeeds with a result.
C1_RejectedExactlyWhenInvalid ==
    Handled =>
        /\ Rejected <=>
            \/ req.distance_km < 0
            \/ Given(req.fuel_type) /\ Val(req.fuel_type) \notin {"petrol", "diesel"}
            \/ Given(req.fuel_used_l) /\ Val(req.fuel_used_l) < 0
            \/ Given(req.efficiency_km_per_l) /\ Val(req.efficiency_km_per_l) <= 0
            \/ Given(req.avg_speed_kmh) /\ Val(req.avg_speed_kmh) < 0
            \/ ~Given(req.fuel_used_l) /\ ~Given(req.efficiency_km_per_l)
        /\ Rejected <=> resp.body = None
        /\ Rejected => resp.status \in {400, 422}

\* C1 witness: a request with fuel_used_l given but negative, valid otherwise,
\* was rejected.
C1_NegativeFuelRejected ==
    /\ Handled
    /\ Rejected
    /\ req.distance_km >= 0
    /\ req.fuel_type = Some("petrol")
    /\ Given(req.fuel_used_l) /\ Val(req.fuel_used_l) < 0
    /\ req.efficiency_km_per_l = Some(100)
    /\ req.avg_speed_kmh = None

\* The request of C2: 100 km at 10 km/l, petrol, 50 km/h.
C2_Request == Request("v1", 1000, None, Some(100), Some("petrol"), Some(500))

\* C2 as stated: the request returns co2_kg = 23.1, co2_g_per_km = 231.0,
\* co_g = 120.0, alert = true and reason exactly "High CO2 intensity".
C2_ReasonIsCo2Only ==
    (Handled /\ req = C2_Request) =>
        /\ resp.status = 200
        /\ Val(resp.body) = [co_g |-> 12000, co2_kg |-> 23100, co2_g_per_km |-> 2310,
                             alert |-> TRUE, reason |-> Some("High CO2 intensity")]

\* C2 amended: the request returns co2_kg = 23.1, co2_g_per_km = 231.0,
\* co_g = 120.0, alert = true and reason "High CO2 intensity, High CO emission"
\* (co_g = 120 exceeds 20, so the second rule fires too).
C2_ReasonIsBoth ==
    (Handled /\ req = C2_Request) =>
        /\ resp.status = 200
        /\ Val(resp.body) = [co_g |-> 12000, co2_kg |-> 23100, co2_g_per_km |-> 2310,
                             alert |-> TRUE,
                             reason |-> Some("High CO2 intensity, High CO emission")]

\* C2 witness: the request of C2 was handled and answered.
C2_RequestHandled == Handled /\ req = C2_Request /\ resp.status = 200

\* C3: alert is true iff co2_g_per_km > 180 or co_g > 20 (both strict); reason is
\* null when neither rule fires, "High CO2 intensity" when only the first fires,
\* "High CO emission" when only the second fires, and both, in that order and
\* joined by ", ", when both fire.
C3_ThresholdsDecideAlertAndReason ==
    op = "thresholds" =>
        LET hi_co2 == req.co2_g_per_km > 1800
            hi_co  == req.co_g > 2000
        IN  /\ resp.alert <=> (hi_co2 \/ hi_co)
            /\ resp.reason =
                 IF hi_co2 /\ hi_co THEN Some("High CO2 intensity, High CO emission")
                 ELSE IF hi_co2 THEN Some("High CO2 intensity")
                 ELSE IF hi_co THEN Some("High CO emission")
                 ELSE None

\* C3 witness: exactly 180 g/km and exactly 20 g were evaluated and did not fire.
C3_ExactThresholdsDoNotFire ==
    /\ op = "thresholds"
    /\ req.co2_g_per_km = 1800
    /\ req.co_g = 2000
    /\ resp.alert = FALSE
    /\ resp.reason = None

\* C4: the speed of the CO computation is avg_speed_kmh whenever it is provided
\* (0 included) and 40 only when it is absent.
C4_SpeedIsAvgSpeedWheneverProvided ==
    (Handled /\ ~Rejected) =>
        LET base  == IF FuelTypeOf(req) = "petrol" THEN 1200 ELSE 800
            speed == IF Given(req.avg_speed_kmh) THEN Val(req.avg_speed_kmh) ELSE 400
        IN  Val(resp.body).co_g = CoGTotal(base, speed, req.distance_km)

\* C5: the result of a valid request whose insert failed is the 200 response
\* the same request gets when the insert succeeds.
C5_FailedInsertSameResult ==
    (Handled /\ dbCall = "insert_failed") =>
        /\ resp.status = 200
        /\ resp.body # None
        /\ resp = estimate(req, <<>>, now, TRUE).resp

\* C5 witness: an insert failed and the request was answered with a result.
C5_InsertFailedAnswered ==
    Handled /\ dbCall = "insert_failed" /\ resp.status = 200 /\ Val(resp.body).alert

\* The report of the last WeeklyAnalysis call.
Analysed == op = "weekly"

WindowStart == now - 7 * DayLen

ZeroBucket(b) == b.trips = 0 /\ b.co_g = 0 /\ b.co2_kg = 0 /\ b.alerts = 0

\* C6: WeeklyAnalysis never fails; when the query fails the report is that of an
\* empty store: every summary field 0 and 7 by_day buckets, all zero.
C6_QueryFailureGivesZeroReport ==
    Analysed =>
        /\ resp.status = 200
        /\ dbCall = "find_failed" =>
             LET r == Val(resp.body)
             IN  /\ r.summary = [total_trips |-> 0, total_co_g |-> 0, total_co2_kg |-> 0,
                                 avg_co_g |-> 0, avg_co2_kg |-> 0, alerts |-> 0]
                 /\ Len(r.by_day) = 7
                 /\ \A i \in 1..Len(r.by_day) : ZeroBucket(r.by_day[i])
                 /\ resp = weekly_analysis(req, <<>>, now, TRUE).resp

\* C6 witness: the query failed on a store that holds a reading inside the
\* window, and the request was answered.
C6_QueryFailedOnNonEmptyStore ==
    /\ Analysed
    /\ dbCall = "find_failed"
    /\ resp.status = 200
    /\ \E i \in 1..Len(store) : store[i].created_at >= WindowStart

\* C7: by_day has exactly 7 entries, whose days are the 7 consecutive dates
\* starting at the date of now - 7 days, in order; a day with no reading has
\* trips = co_g = co2_kg = alerts = 0.
C7_SevenConsecutiveDays ==
    (Analysed /\ resp.status = 200) =>
        LET by_day == Val(resp.body).by_day
        IN  /\ Len(by_day) = 7
            /\ \A i \in 1..Len(by_day) :
                 /\ by_day[i].day = DayKey(WindowStart) + (i - 1)
                 /\ (\A k \in 1..Len(store) : DayKey(store[k].created_at) # by_day[i].day)
                      => ZeroBucket(by_day[i])

\* C7 witness: the query returned a reading dated after the last enumerated day
\* and one inside the enumerated range.
C7_ReadingOutsideEnumeratedDays ==
    /\ Analysed
    /\ dbCall = "find_ok"
    /\ req = None
    /\ \E k \in 1..Len(store) : DayKey(store[k].created_at) > DayKey(WindowStart) + 6
    /\ \E i \in 1..7 : Val(resp.body).by_day[i].trips > 0

\* C8 as stated: total_trips is the number of stored readings with
\* created_at >= now - 7 days and, when a vehicle_id is given, that vehicle_id;
\* alerts is the number of those with alert = true.
C8_CountsMatchingReadingsOfGivenVehicle ==
    (Analysed /\ dbCall = "find_ok") =>
        LET In(d) == /\ d.created_at >= WindowStart
                     /\ Given(req) => d.vehicle_id = Val(req)
            InAlert(d) == In(d) /\ d.alert
        IN  /\ Val(resp.body).summary.total_trips
                  = Cardinality({k \in 1..Len(store) : In(store[k])})
            /\ Val(resp.body).summary.alerts
                  = Cardinality({k \in 1..Len(store) : InAlert(store[k])})

\* C8 amended: total_trips is the number of stored readings with
\* created_at >= now - 7 days (inclusive, no upper bound) and, when a non-empty
\* vehicle_id is given, that vehicle_id; an empty vehicle_id filters nothing;
\* alerts is the number of those with alert = true.
C8_CountsMatchingReadingsOfNonEmptyVehicle ==
    (Analysed /\ dbCall = "find_ok") =>
        LET In(d) == /\ d.created_at >= WindowStart
                     /\ (Given(req) /\ Val(req) # "") => d.vehicle_id = Val(req)
            InAlert(d) == In(d) /\ d.alert
        IN  /\ Val(resp.body).summary.total_trips
                  = Cardinality({k \in 1..Len(store) : In(store[k])})
            /\ Val(resp.body).summary.alerts
                  = Cardinality({k \in 1..Len(store) : InAlert(store[k])})

\* C8 witness: a report for vehicle v1 counted its reading that is exactly 7 days
\* old and left out a reading of another vehicle.
C8_BoundaryReadingCounted ==
    /\ Analysed
    /\ dbCall = "find_ok"
    /\ req = Some("v1")
    /\ \E k \in 1..Len(store) : store[k].created_at = WindowStart /\ store[k].vehicle_id = "v1"
    /\ \E k \in 1..Len(store) : store[k].vehicle_id # "v1"
    /\ Val(resp.body).summary.total_trips = 1
    /\ Val(resp.body).summary.alerts = 1

\* C9: the store is append-only. A rejected Estimate makes no insert and leaves
\* the store unchanged; a successful one makes one insert, which adds exactly the
\* computed reading when storage is available and nothing when it is not;
\* WeeklyAnalysis leaves the store unchanged, and a WeeklyAnalysis repeated with
\* the same now and vehicle_id and no write in between returns the same report.
C9_StoreAppendOnly ==
    [][ /\ Len(store) <= Len(store') /\ Len(store') <= Len(store) + 1
        /\ SubSeq(store', 1, Len(store)) = store
        /\ (op' = "estimate" /\ resp'.status # 200) =>
              (store' = store /\ dbCall' = "none")
        /\ (op' = "estimate" /\ resp'.status = 200) =>
              /\ dbCall' \in {"insert_ok", "insert_failed"}
              /\ dbCall' = "insert_failed" => store' = store
              /\ dbCall' = "insert_ok" =>
                    /\ Len(store') = Len(store) + 1
                    /\ store'[Len(store')].vehicle_id = req'.vehicle_id
                    /\ store'[Len(store')].created_at = now
                    /\ store'[Len(store')].co_g = Val(resp'.body).co_g
        /\ op' = "weekly" => store' = store
        /\ (op = "weekly" /\ op' = "weekly" /\ req' = req /\ dbCall' = dbCall /\ now' = now)
              => resp' = resp
      ]_vars

\* C9 witness: a reading was inserted for a vehicle that already had one.
C9_SecondReadingAppended ==
    /\ Handled
    /\ dbCall = "insert_ok"
    /\ Len(store) = 2
    /\ store[1].vehicle_id = store[2].vehicle_id

\* C10: when every reading the query returns lies in [now - 7 days, now), the
\* by_day trips sum to summary.total_trips and the by_day alerts to
\* summary.alerts: a reading made earlier on today's date appears in by_day.
C10_BucketsSumToSummary ==
    (Analysed /\ dbCall = "find_ok"
       /\ \A k \in 1..Len(find(store, WindowStart, req)) :
             find(store, WindowStart, req)[k].created_at < now) =>
        LET r == Val(resp.body)
        IN  /\ SumSeq([i \in 1..Len(r.by_day) |-> r.by_day[i].trips]) = r.summary.total_trips
            /\ SumSeq([i \in 1..Len(r.by_day) |-> r.by_day[i].alerts]) = r.summary.alerts

====
